---- MODULE Spec2Model ----
(***************************************************************************)
(* Model of suffcal: the photo tracker (suffcal/handler.py), its           *)
(* acquisition cycle and singleton, and the extraction pipeline            *)
(* (suffcal/extractor.py).                                                 *)
(*                                                                         *)
(* The photo store is the pair of directories new_photos / processed_photos*)
(* a directory is a set of file names.  Path.glob("*") returns the entries *)
(* in the order the file system yields them, which Python leaves           *)
(* unspecified: "the first entry" is a choice over the whole directory.    *)
(***************************************************************************)
EXTENDS Integers, Sequences, FiniteSets, TLC

(***************************************************************************)
(* Bounds of the model.                                                    *)
(***************************************************************************)
\* posts the target account publishes during a run
MaxPosts == 3
\* MediaHandler objects constructed during a run (init_media_handler calls
\* that get past the singleton check)
MaxConstructions == 2
\* length up to which every text over Alphabet is a completion
MaxLen == 3

VARIABLES
    posts,                  \* the account's posts, newest first: [pk, media_type]
    new_photos_dir,         \* file names in <download_path>/new_photos
    processed_photos_dir,   \* file names in <download_path>/processed_photos
    handler_instance,       \* handler.py's global __handler_instance (0: None)
    constructed,            \* MediaHandler objects constructed so far
    on_new_photo_callback,  \* self._on_new_photo_callback: the wrapped handlers, as the
                            \* set of the distinct ones (a wrapper's call depends on
                            \* neither its place in the list nor the other entries)
    stop_event,             \* self._stop_event
    mpc,                    \* the main thread: "run" | "constructing"
    wpc,                    \* the update thread: "unstarted" | "loop" | "cycle" | "sleep" | "exited" | "dead"
    cyc,                    \* the update_posts call in progress (its locals)
    quiet,                  \* history: a cycle has completed and no post was published
                            \* since it fetched its listing
    marked,                 \* history: photos mark_photo_as_processed has moved
    first_instance,         \* history: the object the first successful init stored
    last_call,              \* history: the last foreground API call and its outcome
    max_downloads_default,  \* the default of update_posts' max_downloads, which every
                            \* call in the program uses
    no_auto_update,         \* the argument of that name of the constructor call
    mkdir_done,             \* new_photos_dir.mkdir and processed_photos_dir.mkdir
                            \* have been called
    ocr,                    \* what _do_ocr does for the image: [raises, rec_texts]
    llm,                    \* what ask_llm does for the text: [raises, content]
    xpc,                    \* on_new_photo and its extract call: "idle" | "call" |
                            \* "returned" | "raised" | "handled" | "handler raised"
    ai_result_json,         \* history: what _parse_ai_response did in the call
    extracted,              \* the call's outcome: [raised, events]
    added,                  \* history: the Events calendar.addEvent was called with
    saved                   \* the Events calendar.save_event has stored

trackerVars == <<posts, new_photos_dir, processed_photos_dir, handler_instance,
                 constructed, on_new_photo_callback, stop_event, mpc, wpc, cyc,
                 quiet, marked, first_instance, last_call, max_downloads_default,
                 no_auto_update, mkdir_done>>

extractVars == <<ocr, llm, xpc, ai_result_json, extracted, added, saved>>

(***************************************************************************)
(* Media types (suffcal.media_types.MediaType) and posts.                  *)
(***************************************************************************)
PHOTO == "PHOTO"
VIDEO == "VIDEO"
MediaTypes == {PHOTO, VIDEO}

\* the account name instagrapi puts in front of the id; it holds an
\* underscore itself ("suff_cal")
TargetUser == <<"suff", "cal">>

\* client.photo_download(pk, folder): the file <username>_<pk>.jpg, as its
\* "_"-separated parts (the suffix is dropped by with_suffix(""))
DownloadName(pk) == Append(TargetUser, pk)

\* DownloadedPhoto.id: the last "_"-separated part of the file name
PhotoId(name) == name[Len(name)]

\* DownloadedPhoto.name: the parts before the id
PhotoName(name) == SubSeq(name, 1, Len(name) - 1)

\* the values max_downloads is given in a run.  The source's default is 20;
\* against an account of at most MaxPosts posts a cap of MaxPosts never
\* binds, as 20 does not on fewer than 20 unseen posts, and a cap of
\* MaxPosts - 1 binds as 20 does on more
Caps == {MaxPosts - 1, MaxPosts}

Min(a, b) == IF a < b THEN a ELSE b

\* client.user_medias(user_id, amount): the `amount` most recent posts
UserMedias(amount) == SubSeq(posts, 1, Min(amount, Len(posts)))

NoCycle == [owner |-> "none", pc |-> "idle", latest_id |-> 0, type |-> PHOTO,
            max_downloads |-> 0, posts |-> <<>>, i |-> 0, counter |-> 0,
            downloads |-> {}, fresh |-> FALSE]

NoCall == [op |-> "none", photo |-> <<>>, result |-> "none", was |-> 0]

TrackerInit ==
    /\ posts = <<>>
    /\ new_photos_dir = {}
    /\ processed_photos_dir = {}
    /\ handler_instance = 0
    /\ constructed = 0
    /\ on_new_photo_callback = {}
    /\ stop_event = FALSE
    /\ mpc = "run"
    /\ wpc = "unstarted"
    /\ cyc = NoCycle
    /\ quiet = FALSE
    /\ max_downloads_default \in Caps
    /\ marked = {}
    /\ first_instance = 0
    /\ last_call = NoCall
    /\ no_auto_update = FALSE
    /\ mkdir_done = FALSE

(***************************************************************************)
(* The network collaborator: the account publishes a post.                 *)
(***************************************************************************)
Publish(t) ==
    /\ Len(posts) < MaxPosts
    /\ posts' = <<[pk |-> Len(posts) + 1, media_type |-> t]>> \o posts
    /\ quiet' = FALSE
    /\ cyc' = [cyc EXCEPT !.fresh = FALSE]
    /\ UNCHANGED <<new_photos_dir, processed_photos_dir, handler_instance,
                   constructed, on_new_photo_callback, stop_event, mpc, wpc,
                   marked, first_instance, last_call>>
    /\ UNCHANGED <<max_downloads_default, no_auto_update, mkdir_done, extractVars>>

(***************************************************************************)
(* MediaHandler.update_posts, one step per statement that reads or writes  *)
(* the store or the network; the background thread and the main thread     *)
(* interleave between the steps.                                           *)
(***************************************************************************)
\* the call: update_posts(type = PHOTO, max_downloads = cap)
StartCycle(owner, cap) ==
    [NoCycle EXCEPT !.owner = owner, !.pc = "l116", !.max_downloads = cap]

cycleFrame == <<posts, handler_instance, constructed, on_new_photo_callback,
                stop_event, mpc, wpc, quiet, marked, first_instance, last_call,
                processed_photos_dir>>

\* line 116: if self._get_unprocessed_photos(amount=1)
UpdateTestNew ==
    /\ cyc.pc = "l116"
    /\ cyc' = [cyc EXCEPT !.pc = IF new_photos_dir # {} THEN "l117" ELSE "l118"]
    /\ UNCHANGED <<cycleFrame, new_photos_dir>>
    /\ UNCHANGED <<max_downloads_default, no_auto_update, mkdir_done, extractVars>>

\* line 117: latest_id = self._get_unprocessed_photos(amount=1)[0].id
\* (a second listing; [0] of an empty list raises IndexError)
UpdateReadNew ==
    /\ cyc.pc = "l117"
    /\ IF new_photos_dir = {}
         THEN cyc' = [cyc EXCEPT !.pc = "raised"]
         ELSE \E f \in new_photos_dir :
                 cyc' = [cyc EXCEPT !.pc = "l121", !.latest_id = PhotoId(f)]
    /\ UNCHANGED <<cycleFrame, new_photos_dir>>
    /\ UNCHANGED <<max_downloads_default, no_auto_update, mkdir_done, extractVars>>

\* line 118: elif self._get_processed_photos(amount=1)
UpdateTestProcessed ==
    /\ cyc.pc = "l118"
    /\ cyc' = [cyc EXCEPT !.pc = IF processed_photos_dir # {} THEN "l119" ELSE "l121"]
    /\ UNCHANGED <<cycleFrame, new_photos_dir>>
    /\ UNCHANGED <<max_downloads_default, no_auto_update, mkdir_done, extractVars>>

\* line 119: latest_id = self._get_processed_photos(amount=1)[0].id
UpdateReadProcessed ==
    /\ cyc.pc = "l119"
    /\ IF processed_photos_dir = {}
         THEN cyc' = [cyc EXCEPT !.pc = "raised"]
         ELSE \E f \in processed_photos_dir :
                 cyc' = [cyc EXCEPT !.pc = "l121", !.latest_id = PhotoId(f)]
    /\ UNCHANGED <<cycleFrame, new_photos_dir>>
    /\ UNCHANGED <<max_downloads_default, no_auto_update, mkdir_done, extractVars>>

\* line 121: posts = self.client.user_medias(self.user_id, amount=max_downloads)
\* (the network call succeeds or raises)
UpdateFetch(ok) ==
    /\ cyc.pc = "l121"
    /\ cyc' = IF ok
                THEN [cyc EXCEPT !.pc = "l124", !.posts = UserMedias(cyc.max_downloads),
                                 !.i = 1, !.counter = 0, !.fresh = TRUE]
                ELSE [cyc EXCEPT !.pc = "raised"]
    /\ UNCHANGED <<cycleFrame, new_photos_dir>>
    /\ UNCHANGED <<max_downloads_default, no_auto_update, mkdir_done, extractVars>>

\* lines 125-126: the loop's exit test for the post at hand
BreakAtCapOnly(c, post) == c.counter >= c.max_downloads
BreakAt(c, post) == post.pk = c.latest_id \/ c.counter >= c.max_downloads

\* line 128: if post.media_type == type
IsConfiguredTypeAny(c, post) == TRUE
IsConfiguredType(c, post) == post.media_type = c.type

\* lines 124-130: one iteration of `for post in posts`; client.photo_download
\* stores the file (replacing one of the same name) or raises
UpdateWalk ==
    /\ cyc.pc = "l124"
    /\ IF cyc.i > Len(cyc.posts)
         THEN /\ cyc' = [cyc EXCEPT !.pc = "done"]
              /\ UNCHANGED new_photos_dir
         ELSE LET post == cyc.posts[cyc.i] IN
              IF BreakAt(cyc, post)
                THEN /\ cyc' = [cyc EXCEPT !.pc = "done"]
                     /\ UNCHANGED new_photos_dir
                ELSE IF IsConfiguredType(cyc, post)
                  THEN \E ok \in BOOLEAN :
                       IF ok
                         THEN /\ new_photos_dir' = new_photos_dir \cup {DownloadName(post.pk)}
                              /\ cyc' = [cyc EXCEPT !.i = @ + 1, !.counter = @ + 1,
                                                    !.downloads = @ \cup {post.pk}]
                         ELSE /\ cyc' = [cyc EXCEPT !.pc = "raised"]
                              /\ UNCHANGED new_photos_dir
                  ELSE /\ cyc' = [cyc EXCEPT !.i = @ + 1]
                       /\ UNCHANGED new_photos_dir
    /\ UNCHANGED cycleFrame
    /\ UNCHANGED <<max_downloads_default, no_auto_update, mkdir_done, extractVars>>

(***************************************************************************)
(* MediaHandler.mark_photo_as_processed: photo.path.rename(processed/name).*)
(* os.rename moves the entry atomically and replaces an entry of the same  *)
(* name; it raises FileNotFoundError when the source is gone.              *)
(***************************************************************************)
RenameSource(f) == new_photos_dir \ {f}
RenameTarget(f) == processed_photos_dir \cup {f}

(***************************************************************************)
(* The singleton: init_media_handler / get_media_handler, and              *)
(* MediaHandler.__init__ (login, mkdir, the synchronous update_posts, the  *)
(* update thread).                                                         *)
(***************************************************************************)
\* line 172: the singleton check
AlreadyInitializedNever == FALSE
AlreadyInitialized == handler_instance # 0

\* lines 170-174 and 50-67: the singleton test, then the constructor up to its call of
\* update_posts(); client.login succeeds (ok) or raises
InitMediaHandler ==
    /\ mpc = "run"
    /\ IF AlreadyInitialized
         THEN /\ last_call' = [NoCall EXCEPT !.op = "init_media_handler",
                                  !.result = "ValueError: Handler already initialized",
                                  !.was = handler_instance]
              /\ UNCHANGED <<constructed, on_new_photo_callback, stop_event, mpc, cyc,
                             no_auto_update, mkdir_done>>
         ELSE /\ constructed < MaxConstructions
              /\ constructed' = constructed + 1
              /\ \E ok \in BOOLEAN :
                   IF ok
                     THEN /\ \E arg \in BOOLEAN : no_auto_update' = arg
                          /\ mkdir_done' = TRUE
                          /\ on_new_photo_callback' = {}
                          /\ stop_event' = FALSE
                          /\ mpc' = "constructing"
                          /\ cyc' = StartCycle("init", max_downloads_default)
                          /\ UNCHANGED last_call
                     ELSE /\ last_call' = [NoCall EXCEPT !.op = "init_media_handler",
                                              !.result = "raised", !.was = handler_instance]
                          /\ UNCHANGED <<on_new_photo_callback, stop_event, mpc, cyc,
                                         no_auto_update, mkdir_done>>
    /\ UNCHANGED <<posts, new_photos_dir, processed_photos_dir, handler_instance,
                   wpc, quiet, marked, first_instance>>
    /\ UNCHANGED <<max_downloads_default, extractVars>>

\* line 75: if not no_auto_update
StartsThreadAlways == TRUE
StartsThread == ~no_auto_update

\* lines 68-76 and 174: update_posts() returned; the thread is created and,
\* unless no_auto_update, started; the object is stored in the global
InitReturn ==
    /\ cyc.owner = "init"
    /\ cyc.pc = "done"
    /\ wpc' = IF StartsThread THEN "loop" ELSE wpc
    /\ handler_instance' = constructed
    /\ first_instance' = IF first_instance = 0 THEN constructed ELSE first_instance
    /\ last_call' = [NoCall EXCEPT !.op = "init_media_handler", !.result = "ok",
                        !.was = handler_instance]
    /\ mpc' = "run"
    /\ quiet' = cyc.fresh
    /\ cyc' = NoCycle
    /\ UNCHANGED <<posts, new_photos_dir, processed_photos_dir, constructed,
                   on_new_photo_callback, stop_event, marked>>
    /\ UNCHANGED <<max_downloads_default, no_auto_update, mkdir_done, extractVars>>

\* the synchronous update_posts() raised: the exception leaves __init__ and
\* init_media_handler, the global stays None
InitRaise ==
    /\ cyc.owner = "init"
    /\ cyc.pc = "raised"
    /\ last_call' = [NoCall EXCEPT !.op = "init_media_handler", !.result = "raised",
                        !.was = handler_instance]
    /\ mpc' = "run"
    /\ cyc' = NoCycle
    /\ no_auto_update' = FALSE
    /\ UNCHANGED <<posts, new_photos_dir, processed_photos_dir, handler_instance,
                   constructed, on_new_photo_callback, stop_event, wpc, quiet,
                   marked, first_instance>>
    /\ UNCHANGED <<max_downloads_default, mkdir_done, extractVars>>

\* lines 177-181: the call reads the global and changes nothing
GetMediaHandler ==
    IF handler_instance = 0
      THEN [raised |-> "ValueError: Handler not initialized", returned |-> 0]
      ELSE [raised |-> "", returned |-> handler_instance]

(***************************************************************************)
(* MediaHandler._update_worker.                                            *)
(***************************************************************************)
\* line 161: while not self._stop_event.is_set(); line 162: update_posts()
StopIsSetNever == FALSE
StopIsSet == stop_event

WorkerLoop ==
    /\ wpc = "loop"
    /\ IF StopIsSet
         THEN /\ wpc' = "exited"
              /\ UNCHANGED cyc
         ELSE /\ wpc' = "cycle"
              /\ cyc' = StartCycle("worker", max_downloads_default)
    /\ UNCHANGED <<posts, new_photos_dir, processed_photos_dir, handler_instance,
                   constructed, on_new_photo_callback, stop_event, mpc, quiet,
                   marked, first_instance, last_call>>
    /\ UNCHANGED <<max_downloads_default, no_auto_update, mkdir_done, extractVars>>

\* line 163: update_posts() returned; time.sleep(interval)
WorkerSleep ==
    /\ cyc.owner = "worker"
    /\ cyc.pc = "done"
    /\ wpc' = "sleep"
    /\ quiet' = cyc.fresh
    /\ cyc' = NoCycle
    /\ UNCHANGED <<posts, new_photos_dir, processed_photos_dir, handler_instance,
                   constructed, on_new_photo_callback, stop_event, mpc, marked,
                   first_instance, last_call>>
    /\ UNCHANGED <<max_downloads_default, no_auto_update, mkdir_done, extractVars>>

\* time.sleep returns: back to the loop's test
WorkerWake ==
    /\ wpc = "sleep"
    /\ wpc' = "loop"
    /\ UNCHANGED <<posts, new_photos_dir, processed_photos_dir, handler_instance,
                   constructed, on_new_photo_callback, stop_event, mpc, cyc, quiet,
                   marked, first_instance, last_call>>
    /\ UNCHANGED <<max_downloads_default, no_auto_update, mkdir_done, extractVars>>

\* update_posts() raised inside the thread: nothing in _update_worker catches
\* it, the thread ends
WorkerRaise ==
    /\ cyc.owner = "worker"
    /\ cyc.pc = "raised"
    /\ wpc' = "dead"
    /\ cyc' = NoCycle
    /\ UNCHANGED <<posts, new_photos_dir, processed_photos_dir, handler_instance,
                   constructed, on_new_photo_callback, stop_event, mpc, quiet,
                   marked, first_instance, last_call>>
    /\ UNCHANGED <<max_downloads_default, no_auto_update, mkdir_done, extractVars>>

\* stop_worker(), which __main__.py line 14 calls on the handler: handler.py
\* has no such method and nothing in it sets _stop_event.  The action follows
\* the specification's stopBackgroundWork: it sets the cooperative stop flag
\* and does nothing else
StopWorker ==
    /\ mpc = "run"
    /\ GetMediaHandler.raised = ""
    /\ ~stop_event
    /\ stop_event' = TRUE
    /\ UNCHANGED <<posts, new_photos_dir, processed_photos_dir, handler_instance,
                   constructed, on_new_photo_callback, mpc, wpc, cyc, quiet,
                   marked, first_instance, last_call>>
    /\ UNCHANGED <<max_downloads_default, no_auto_update, mkdir_done, extractVars>>

(***************************************************************************)
(* The handler's foreground API, reached through get_media_handler().      *)
(***************************************************************************)
\* what a registered function does when called: it returns or it raises
\* (on_new_photo of __main__.py raises when calendar.addEvent does)
CallbackKinds == {"returns", "raises"}

\* lines 90-105
AddOnNewPhotoCallback(cb) ==
    /\ mpc = "run"
    /\ GetMediaHandler.raised = ""
    /\ on_new_photo_callback' = on_new_photo_callback \cup {cb}
    /\ UNCHANGED <<posts, new_photos_dir, processed_photos_dir, handler_instance,
                   constructed, stop_event, mpc, wpc, cyc, quiet, marked,
                   first_instance, last_call>>
    /\ UNCHANGED <<max_downloads_default, no_auto_update, mkdir_done, extractVars>>

\* lines 132-134, called with a DownloadedPhoto of the new_photos directory
\* (possibly a stale one)
MarkPhotoAsProcessed(f) ==
    /\ mpc = "run"
    /\ GetMediaHandler.raised = ""
    /\ IF f \in new_photos_dir
         THEN /\ new_photos_dir' = RenameSource(f)
              /\ processed_photos_dir' = RenameTarget(f)
              /\ marked' = marked \cup {f}
         ELSE \* FileNotFoundError
              UNCHANGED <<new_photos_dir, processed_photos_dir, marked>>
    /\ UNCHANGED <<posts, handler_instance, constructed, on_new_photo_callback,
                   stop_event, mpc, wpc, cyc, quiet, first_instance, last_call>>
    /\ UNCHANGED <<max_downloads_default, no_auto_update, mkdir_done, extractVars>>

\* lines 100-103: marked_wrapper(photo) of the registered handler cb, on a
\* photo listed in new_photos
MarkedWrapper(cb, f) ==
    /\ mpc = "run"
    /\ GetMediaHandler.raised = ""
    /\ IF cb = "raises"
         THEN \* line 101 raises: line 102 is not reached
              /\ last_call' = [NoCall EXCEPT !.op = "marked_wrapper", !.photo = f,
                                  !.result = "raised"]
              /\ UNCHANGED <<new_photos_dir, processed_photos_dir, marked>>
         ELSE \* line 102: self.mark_photo_as_processed(photo)
              /\ new_photos_dir' = RenameSource(f)
              /\ processed_photos_dir' = RenameTarget(f)
              /\ marked' = marked \cup {f}
              /\ last_call' = [NoCall EXCEPT !.op = "marked_wrapper", !.photo = f,
                                  !.result = "returned"]
    /\ UNCHANGED <<posts, handler_instance, constructed, on_new_photo_callback,
                   stop_event, mpc, wpc, cyc, quiet, first_instance>>
    /\ UNCHANGED <<max_downloads_default, no_auto_update, mkdir_done, extractVars>>

TrackerNext ==
    \/ \E t \in MediaTypes : Publish(t)
    \/ InitMediaHandler
    \/ InitReturn
    \/ InitRaise
    \/ UpdateTestNew
    \/ UpdateReadNew
    \/ UpdateTestProcessed
    \/ UpdateReadProcessed
    \/ \E ok \in BOOLEAN : UpdateFetch(ok)
    \/ UpdateWalk
    \/ WorkerLoop
    \/ WorkerSleep
    \/ WorkerWake
    \/ WorkerRaise
    \/ StopWorker
    \/ \E cb \in CallbackKinds : AddOnNewPhotoCallback(cb)
    \/ \E f \in new_photos_dir \cup processed_photos_dir : MarkPhotoAsProcessed(f)
    \/ \E cb \in on_new_photo_callback, f \in new_photos_dir : MarkedWrapper(cb, f)

(***************************************************************************)
(* Text.  A Python str is modelled as the sequence of its characters.      *)
(***************************************************************************)
Chars(str) == [i \in 1..Len(str) |-> SubSeq(str, i, i)]

\* the character at index i, "" past either end
Ch(s, i) == IF i >= 1 /\ i <= Len(s) THEN s[i] ELSE ""

Digits == {"0", "1", "2", "3", "4", "5", "6", "7", "8", "9"}
IsDigit(c) == c \in Digits
DigitVal(c) ==
    CASE c = "0" -> 0 [] c = "1" -> 1 [] c = "2" -> 2 [] c = "3" -> 3 [] c = "4" -> 4
      [] c = "5" -> 5 [] c = "6" -> 6 [] c = "7" -> 7 [] c = "8" -> 8 [] c = "9" -> 9

\* whitespace of str.strip() and of the JSON grammar
IsWs(c) == c \in {" ", "\n", "\t", "\r"}

RECURSIVE SkipWs(_, _)
SkipWs(s, i) == IF IsWs(Ch(s, i)) THEN SkipWs(s, i + 1) ELSE i

RECURSIVE SkipWsBack(_, _)
SkipWsBack(s, i) == IF IsWs(Ch(s, i)) THEN SkipWsBack(s, i - 1) ELSE i

\* str.strip()
Strip(s) == SubSeq(s, SkipWs(s, 1), SkipWsBack(s, Len(s)))

\* str.replace(old, new) for a one-character old
Replace1(s, old, new) == [i \in 1..Len(s) |-> IF s[i] = old THEN new ELSE s[i]]

\* str.replace(a + b, new) for a two-character old: left to right, the
\* occurrences found do not overlap, the result is not scanned again
RECURSIVE Replace2From(_, _, _, _, _)
Replace2From(s, i, a, b, new) ==
    IF i > Len(s) THEN <<>>
    ELSE IF s[i] = a /\ Ch(s, i + 1) = b
           THEN <<new>> \o Replace2From(s, i + 2, a, b, new)
           ELSE <<s[i]>> \o Replace2From(s, i + 1, a, b, new)
Replace2(s, a, b, new) == Replace2From(s, 1, a, b, new)

\* str.count(c) for a one-character c
Count(s, c) == Cardinality({i \in 1..Len(s) : s[i] = c})

\* c * n
Repeat(c, n) == [i \in 1..n |-> c]

\* " ".join(words)
RECURSIVE Join(_)
Join(words) ==
    IF Len(words) = 0 THEN <<>>
    ELSE IF Len(words) = 1 THEN words[1]
    ELSE words[1] \o <<" ">> \o Join(Tail(words))

(***************************************************************************)
(* json.loads (the json module of the standard library), for texts without *)
(* backslash escapes and without the NaN / Infinity literals.              *)
(* A value is [t, s, items]: t its type, s the characters of a string or   *)
(* number, items the elements of a list or the <<key, value>> pairs of an  *)
(* object in insertion order.                                              *)
(***************************************************************************)
JNull == [t |-> "null", s |-> <<>>, items |-> <<>>]
JTrue == [t |-> "true", s |-> <<>>, items |-> <<>>]
JFalse == [t |-> "false", s |-> <<>>, items |-> <<>>]
JStr(chars) == [t |-> "str", s |-> chars, items |-> <<>>]
JNum(chars) == [t |-> "num", s |-> chars, items |-> <<>>]
JList(items) == [t |-> "list", s |-> <<>>, items |-> items]
JObj(pairs) == [t |-> "obj", s |-> <<>>, items |-> pairs]

Fail == [ok |-> FALSE, val |-> JNull, pos |-> 0]
Ok(v, next) == [ok |-> TRUE, val |-> v, pos |-> next]

\* the index of the quote that closes a string whose content starts at j;
\* 0 when the text ends first or a control character comes first
RECURSIVE StrEnd(_, _)
StrEnd(s, j) ==
    IF j > Len(s) THEN 0
    ELSE IF s[j] = "\"" THEN j
    ELSE IF s[j] \in {"\n", "\t", "\r"} THEN 0
    ELSE StrEnd(s, j + 1)

RECURSIVE DigitsEnd(_, _)
DigitsEnd(s, j) == IF IsDigit(Ch(s, j)) THEN DigitsEnd(s, j + 1) ELSE j

\* NUMBER_RE: -?(0|[1-9]\d*)(\.\d+)?([eE][-+]?\d+)?  matched at i
ParseNumber(s, i) ==
    LET a == IF Ch(s, i) = "-" THEN i + 1 ELSE i
        b == IF Ch(s, a) = "0" THEN a + 1 ELSE DigitsEnd(s, a)
        c == IF Ch(s, b) = "." /\ IsDigit(Ch(s, b + 1)) THEN DigitsEnd(s, b + 1) ELSE b
        e == IF Ch(s, c) \in {"e", "E"}
               THEN IF Ch(s, c + 1) \in {"-", "+"} THEN c + 2 ELSE c + 1
               ELSE 0
        d == IF e # 0 /\ IsDigit(Ch(s, e)) THEN DigitsEnd(s, e) ELSE c
    IN  IF b = a THEN Fail ELSE Ok(JNum(SubSeq(s, i, d - 1)), d)

HasLiteral(s, i, w) == i + Len(w) - 1 <= Len(s) /\ SubSeq(s, i, i + Len(w) - 1) = w

\* dict[key] = value: a key already present keeps its place
RECURSIVE Put(_, _, _)
Put(pairs, key, val) ==
    IF Len(pairs) = 0 THEN << <<key, val>> >>
    ELSE IF Head(pairs)[1] = key THEN << <<key, val>> >> \o Tail(pairs)
    ELSE <<Head(pairs)>> \o Put(Tail(pairs), key, val)

RECURSIVE ParseValue(_, _)
RECURSIVE ParseElems(_, _, _)
RECURSIVE ParseMembers(_, _, _)

\* the value that starts at i (the whitespace before it already skipped)
ParseValue(s, i) ==
    LET c == Ch(s, i) IN
    CASE c = "\"" ->
           LET e == StrEnd(s, i + 1) IN
           IF e = 0 THEN Fail ELSE Ok(JStr(SubSeq(s, i + 1, e - 1)), e + 1)
      [] c = "{" ->
           LET j == SkipWs(s, i + 1) IN
           IF Ch(s, j) = "}" THEN Ok(JObj(<<>>), j + 1) ELSE ParseMembers(s, j, <<>>)
      [] c = "[" ->
           LET j == SkipWs(s, i + 1) IN
           IF Ch(s, j) = "]" THEN Ok(JList(<<>>), j + 1) ELSE ParseElems(s, j, <<>>)
      [] c = "-" \/ IsDigit(c) -> ParseNumber(s, i)
      [] c = "n" -> IF HasLiteral(s, i, <<"n", "u", "l", "l">>) THEN Ok(JNull, i + 4) ELSE Fail
      [] c = "t" -> IF HasLiteral(s, i, <<"t", "r", "u", "e">>) THEN Ok(JTrue, i + 4) ELSE Fail
      [] c = "f" -> IF HasLiteral(s, i, <<"f", "a", "l", "s", "e">>) THEN Ok(JFalse, i + 5) ELSE Fail
      [] OTHER -> Fail

\* the elements of a list from j on, up to its "]" (no trailing comma)
ParseElems(s, j, acc) ==
    LET v == ParseValue(s, j) IN
    IF ~v.ok THEN Fail
    ELSE LET m == SkipWs(s, v.pos) IN
         IF Ch(s, m) = "]" THEN Ok(JList(Append(acc, v.val)), m + 1)
         ELSE IF Ch(s, m) = "," THEN ParseElems(s, SkipWs(s, m + 1), Append(acc, v.val))
         ELSE Fail

\* the members of an object from j on, up to its "}": each a double-quoted
\* key, a colon and a value (no trailing comma)
ParseMembers(s, j, acc) ==
    IF Ch(s, j) # "\"" THEN Fail
    ELSE LET e == StrEnd(s, j + 1) IN
         IF e = 0 THEN Fail
         ELSE LET k == SkipWs(s, e + 1) IN
              IF Ch(s, k) # ":" THEN Fail
              ELSE LET v == ParseValue(s, SkipWs(s, k + 1)) IN
                   IF ~v.ok THEN Fail
                   ELSE LET m == SkipWs(s, v.pos)
                            now == Put(acc, SubSeq(s, j + 1, e - 1), v.val)
                        IN  IF Ch(s, m) = "}" THEN Ok(JObj(now), m + 1)
                            ELSE IF Ch(s, m) = "," THEN ParseMembers(s, SkipWs(s, m + 1), now)
                            ELSE Fail

\* json.loads(s): one value, whitespace around it, nothing else;
\* [ok, val]: ok FALSE stands for JSONDecodeError
LoadsEnd(s, v) ==
    IF v.ok /\ SkipWs(s, v.pos) > Len(s) THEN [ok |-> TRUE, val |-> v.val]
    ELSE [ok |-> FALSE, val |-> JNull]
JsonLoads(s) == LoadsEnd(s, ParseValue(s, SkipWs(s, 1)))

(***************************************************************************)
(* Dates: datetime.fromisoformat, datetime.strptime and the datetime       *)
(* constructor's range check.  A date value is [kind, y, m, d]: kind       *)
(* "none" is Python's None, "parsed" a datetime a strict format gave,      *)
(* "lenient" a datetime dateutil's parser gave, "now" datetime.now().      *)
(***************************************************************************)
DateNone == [kind |-> "none", y |-> 0, m |-> 0, d |-> 0]
DateNow == [kind |-> "now", y |-> 0, m |-> 0, d |-> 0]
DateLenient == [kind |-> "lenient", y |-> 0, m |-> 0, d |-> 0]

IsLeap(y) == (y % 4 = 0 /\ y % 100 # 0) \/ y % 400 = 0
DaysInMonth(y, m) ==
    IF m = 2 THEN (IF IsLeap(y) THEN 29 ELSE 28)
    ELSE IF m \in {4, 6, 9, 11} THEN 30 ELSE 31

\* datetime(y, m, d): ValueError (DateNone here) when out of range
MakeDate(y, m, d) ==
    IF y >= 1 /\ m >= 1 /\ m <= 12 /\ d >= 1 /\ d <= DaysInMonth(y, m)
      THEN [kind |-> "parsed", y |-> y, m |-> m, d |-> d]
      ELSE DateNone

Num2(s, i) == 10 * DigitVal(s[i]) + DigitVal(s[i + 1])
Num4(s, i) == 100 * Num2(s, i) + Num2(s, i + 2)
AreDigits(s, i, n) == \A k \in i..(i + n - 1) : IsDigit(Ch(s, k))

\* datetime.fromisoformat(s) for the calendar-date form YYYY-MM-DD; the forms
\* with a time part are left to the lenient parser below
FromIsoFormat(s) ==
    IF /\ Len(s) = 10
       /\ AreDigits(s, 1, 4) /\ s[5] = "-" /\ AreDigits(s, 6, 2) /\ s[8] = "-"
       /\ AreDigits(s, 9, 2)
      THEN MakeDate(Num4(s, 1), Num2(s, 6), Num2(s, 9))
      ELSE DateNone

\* the regular expression strptime builds from a format tries, for a
\* directive, its alternatives in order: for %d and %m the two-digit ones
\* before the one-digit one.  [ok, next, y, m, d] is the first match of the
\* format from item fi on; next the index after it
NoMatch == [ok |-> FALSE, next |-> 0, y |-> 0, m |-> 0, d |-> 0]

\* the alternatives of a directive, in the order the expression tries them
FirstMatch(a, b) == IF a.ok THEN a ELSE b

RECURSIVE Match(_, _, _, _, _)
Match(fmt, fi, s, si, acc) ==
    IF fi > Len(fmt) THEN [acc EXCEPT !.ok = TRUE, !.next = si]
    ELSE LET item == fmt[fi] IN
         CASE item = "%d" ->
                FirstMatch(
                    IF AreDigits(s, si, 2) /\ Num2(s, si) >= 1 /\ Num2(s, si) <= 31
                      THEN Match(fmt, fi + 1, s, si + 2, [acc EXCEPT !.d = Num2(s, si)])
                      ELSE NoMatch,
                    FirstMatch(
                      IF IsDigit(Ch(s, si)) /\ Ch(s, si) # "0"
                        THEN Match(fmt, fi + 1, s, si + 1, [acc EXCEPT !.d = DigitVal(s[si])])
                        ELSE NoMatch,
                      IF Ch(s, si) = " " /\ IsDigit(Ch(s, si + 1)) /\ Ch(s, si + 1) # "0"
                        THEN Match(fmt, fi + 1, s, si + 2, [acc EXCEPT !.d = DigitVal(s[si + 1])])
                        ELSE NoMatch))
           [] item = "%m" ->
                FirstMatch(
                    IF AreDigits(s, si, 2) /\ Num2(s, si) >= 1 /\ Num2(s, si) <= 12
                      THEN Match(fmt, fi + 1, s, si + 2, [acc EXCEPT !.m = Num2(s, si)])
                      ELSE NoMatch,
                    IF IsDigit(Ch(s, si)) /\ Ch(s, si) # "0"
                      THEN Match(fmt, fi + 1, s, si + 1, [acc EXCEPT !.m = DigitVal(s[si])])
                      ELSE NoMatch)
           [] item = "%Y" ->
                IF AreDigits(s, si, 4)
                  THEN Match(fmt, fi + 1, s, si + 4, [acc EXCEPT !.y = Num4(s, si)])
                  ELSE NoMatch
           [] item = "%y" ->
                IF AreDigits(s, si, 2)
                  THEN Match(fmt, fi + 1, s, si + 2,
                             [acc EXCEPT !.y = IF Num2(s, si) <= 68 THEN 2000 + Num2(s, si)
                                                                  ELSE 1900 + Num2(s, si)])
                  ELSE NoMatch
           [] OTHER ->
                IF Ch(s, si) = item THEN Match(fmt, fi + 1, s, si + 1, acc) ELSE NoMatch

\* datetime.strptime(s, fmt): the match r must use the whole string
StrptimeEnd(s, r) ==
    IF r.ok /\ r.next = Len(s) + 1 THEN MakeDate(r.y, r.m, r.d) ELSE DateNone
Strptime(s, fmt) == StrptimeEnd(s, Match(fmt, 1, s, 1, NoMatch))

\* extractor.py lines 54-61
common_formats ==
    << <<"%d", ".", "%m", ".", "%Y">>, <<"%d", ".", "%m", ".", "%y">>,
       <<"%d", "/", "%m", "/", "%Y">>, <<"%d", "/", "%m", "/", "%y">>,
       <<"%Y", "-", "%m", "-", "%d">>, <<"%Y", "/", "%m", "/", "%d">> >>

\* the first attempt that gave a datetime: a try whose except clause goes
\* on to the next attempt
OrElse(tried, next) == IF tried # DateNone THEN tried ELSE next

\* lines 62-66: the loop over the formats
RECURSIVE FirstFormat(_, _)
FirstFormat(s, k) ==
    IF k > Len(common_formats) THEN DateNone
    ELSE OrElse(Strptime(s, common_formats[k]), FirstFormat(s, k + 1))

\* str(datetime.now().year)
YearText == <<"2", "0", "2", "6">>

\* Event.__post_init__._try_parse, lines 44-75.  dateutil's parser is not part
\* of the repository: `lenient` says whether it accepts the string the strict
\* formats rejected (it never accepts a blank one)
TryParseStripped(str, lenient) ==
    OrElse(FromIsoFormat(str),
           OrElse(FirstFormat(str, 1),
                  IF lenient /\ str # <<>> THEN DateLenient ELSE DateNone))
TryParse(date_str, lenient) == TryParseStripped(Strip(date_str), lenient)

\* Event.__post_init__, lines 25-84, on the value passed as `date`: a JSON
\* value, None included.  lenient[1], lenient[2]: dateutil's verdicts on the
\* string and on the string with the year appended
PostInitDropsAll(date, lenient) == DateNone
\* lines 32-33: if self.date is None: return
NoneResolvedToNow == DateNow
NoneLeft == DateNone
PostInit(date, lenient) ==
    IF date.t = "null" THEN NoneLeft
    ELSE IF date.t # "str" THEN DateNone
    ELSE OrElse(TryParse(date.s, lenient[1]), TryParse(date.s \o YearText, lenient[2]))

(***************************************************************************)
(* Extractor: _parse_ai_response and its helpers, extract.                 *)
(***************************************************************************)
\* lines 306-310
DefaultCleanup(text) ==
    Replace2(Replace2(Replace1(Replace1(text, "\n", " "), "'", "\""),
                      ",", "}", "}"), ",", "]", "]")

\* lines 266-272: from the opening bracket at start, the index where the depth
\* of brackets of that kind is back to 0; 0 when the text ends first
RECURSIVE BalancedEnd(_, _, _, _, _)
BalancedEnd(text, i, open_ch, close_ch, depth) ==
    IF i > Len(text) THEN 0
    ELSE IF text[i] = open_ch THEN BalancedEnd(text, i + 1, open_ch, close_ch, depth + 1)
    ELSE IF text[i] = close_ch
           THEN IF depth - 1 = 0 THEN i
                ELSE BalancedEnd(text, i + 1, open_ch, close_ch, depth - 1)
    ELSE BalancedEnd(text, i + 1, open_ch, close_ch, depth)

\* lines 260-273: the loop over the start indices
RECURSIVE ExtractFrom(_, _)
ExtractFrom(text, start_idx) ==
    IF start_idx > Len(text) THEN [found |-> FALSE, text |-> <<>>]
    ELSE IF text[start_idx] \notin {"{", "["} THEN ExtractFrom(text, start_idx + 1)
    ELSE LET e == BalancedEnd(text, start_idx, text[start_idx],
                              IF text[start_idx] = "{" THEN "}" ELSE "]", 0)
         IN  IF e # 0 THEN [found |-> TRUE, text |-> SubSeq(text, start_idx, e)]
             ELSE ExtractFrom(text, start_idx + 1)

\* _extract_json_substring, lines 251-273; found FALSE is None
ExtractJsonSubstring(text) ==
    IF Len(text) = 0 THEN [found |-> FALSE, text |-> <<>>] ELSE ExtractFrom(text, 1)

Max(a, b) == IF a > b THEN a ELSE b

\* _complete_truncated_json, lines 275-291
CompleteTruncatedJson(text) ==
    IF Len(text) = 0 THEN text
    ELSE text \o Repeat("}", Max(0, Count(text, "{") - Count(text, "}")))
              \o Repeat("]", Max(0, Count(text, "[") - Count(text, "]")))

\* _parse_ai_response, lines 293-336, on a str; exc "ValueError" is line 336
Returned(v) == [exc |-> "", val |-> v]
Raised(e) == [exc |-> e, val |-> JNull]

\* lines 329-336: completed is the candidate closed and cleaned, loaded
\* the outcome of json.loads on it
ParseCompleted(loaded) ==
    IF loaded.ok THEN Returned(loaded.val) ELSE Raised("ValueError")

\* lines 325-334: candidate after _default_cleanup, loaded the outcome of
\* json.loads on it
ParseCleaned(candidate, loaded) ==
    IF loaded.ok THEN Returned(loaded.val)
    ELSE ParseCompleted(JsonLoads(DefaultCleanup(CompleteTruncatedJson(candidate))))

\* lines 323-336: if candidate
ParseCandidate(candidate) ==
    IF candidate.found
      THEN ParseCleaned(DefaultCleanup(candidate.text),
                        JsonLoads(DefaultCleanup(candidate.text)))
      ELSE Raised("ValueError")

\* lines 316-322: loaded is the outcome of the direct json.loads
ParseDirect(ai_text_copy, loaded) ==
    IF loaded.ok THEN Returned(loaded.val)
    ELSE ParseCandidate(ExtractJsonSubstring(ai_text_copy))

\* lines 312-313
ParseAiResponse(ai_text) ==
    ParseDirect(DefaultCleanup(Strip(ai_text)), JsonLoads(DefaultCleanup(Strip(ai_text))))

\* dict.get(key): the value, None for a missing key
RECURSIVE DictGet(_, _)
DictGet(pairs, key) ==
    IF Len(pairs) = 0 THEN JNull
    ELSE IF Head(pairs)[1] = key THEN Head(pairs)[2]
    ELSE DictGet(Tail(pairs), key)

Titel == <<"T", "i", "t", "e", "l">>
Datum == <<"D", "a", "t", "u", "m">>
Uhrzeit == <<"U", "h", "r", "z", "e", "i", "t">>
Ort == <<"O", "r", "t">>

\* lines 154-161 / 166-173: Event(src=image, title=..., date=..., ...)
EventOf(obj, text, lenient) ==
    [src |-> "image", original_text |-> text,
     title |-> DictGet(obj.items, Titel), time |-> DictGet(obj.items, Uhrzeit),
     location |-> DictGet(obj.items, Ort),
     date |-> PostInit(DictGet(obj.items, Datum), lenient)]

\* line 184: Event(src=image, original_text=text); date is the default
\* factory's datetime.now()
FallbackEventNoText(text) ==
    [src |-> "image", original_text |-> <<>>, title |-> JNull, time |-> JNull,
     location |-> JNull, date |-> DateNow]
FallbackEvent(text) ==
    [src |-> "image", original_text |-> text, title |-> JNull, time |-> JNull,
     location |-> JNull, date |-> DateNow]

\* lines 152-174 on the objects the Events are built from: .get on a value
\* that is no dict raises AttributeError
BuildEvents(objs, text, lenient) ==
    IF \E k \in 1..Len(objs) : objs[k].t # "obj"
      THEN [exc |-> "AttributeError", events |-> <<>>]
      ELSE [exc |-> "", events |-> [k \in 1..Len(objs) |-> EventOf(objs[k], text, lenient)]]

\* lines 149-176, the body of the try; parsed is what line 149 did: a list
\* gives an Event for each element, any other value one Event
TryBody(parsed, text, lenient) ==
    IF parsed.exc # "" THEN [exc |-> parsed.exc, events |-> <<>>]
    ELSE BuildEvents(IF parsed.val.t = "list" THEN parsed.val.items ELSE <<parsed.val>>,
                     text, lenient)

\* line 177: except Exception
CatchesValueErrorOnly(exc) == exc = "ValueError"
Catches(exc) == exc # ""

\* lines 176-184: the try's return, or the handler and the fallback
ReturnOrFallback(body, text) ==
    IF body.exc = "" THEN [raised |-> "", events |-> body.events]
    ELSE IF Catches(body.exc) THEN [raised |-> "", events |-> <<FallbackEvent(text)>>]
    ELSE [raised |-> body.exc, events |-> <<>>]

\* extract, lines 143-184, once _do_ocr and ask_llm have returned; parsed is
\* what _parse_ai_response did on the completion
ExtractResult(rec_texts, parsed, lenient) ==
    ReturnOrFallback(TryBody(parsed, Join(rec_texts), lenient), Join(rec_texts))

(***************************************************************************)
(* The extract call and the inputs it is run on.                           *)
(***************************************************************************)
NoOcr == [raises |-> FALSE, rec_texts |-> <<>>]
NoLlm == [raises |-> FALSE, content |-> <<>>]
NoParse == [exc |-> "not called", val |-> JNull]
NoResult == [raised |-> "", events |-> <<>>]

ExtractIdle ==
    /\ ocr = NoOcr
    /\ llm = NoLlm
    /\ xpc = "idle"
    /\ ai_result_json = NoParse
    /\ extracted = NoResult
    /\ added = <<>>
    /\ saved = <<>>

\* the characters the enumerated completions are made of
Alphabet == {"{", "}", "[", "]", "\"", "'", ",", ":", "1", "a", " "}

AllTexts(n) == UNION {[1..k -> Alphabet] : k \in 0..n}

Prefixes(text) == {SubSeq(text, 1, k) : k \in 0..Len(text)}

\* completions of the kinds the model produces: an object, a list of objects,
\* prose, prose around an object, single-quoted output, trailing commas,
\* apostrophes and bracket characters inside strings, scalars
Documents ==
    { Chars("{\"Titel\": \"Konzert\", \"Datum\": \"2024-05-01\"}"),
      Chars("[{\"Titel\": \"A\", \"Datum\": \"2024-02-29\"}, {\"Titel\": \"B\", \"Datum\": null}]"),
      Chars("{\"Titel\":\"Rock'n'Roll\",\"Datum\":\"2024-05-01\"}"),
      Chars("{'Titel': 'K', 'Datum': '1.5.24',}"),
      Chars("Ergebnis: {\"Titel\": \"K\", \"Datum\": \"12.03.\"} Ende"),
      Chars("Keine Veranstaltung gefunden."),
      Chars("{\"Titel\": \"K\", \"Ort\": \"Halle [2,]\"}"),
      Chars("{\"Datum\": 5, \"Uhrzeit\": \"20 Uhr\"}"),
      Chars("{\"Datum\": \"morgen\"}"),
      Chars("{\"Datum\": \" \"}"),
      Chars("{\"Datum\": \"2023-02-29\"}"),
      Chars("{\"Titel\": \"A\",\n \"Datum\": \"01/05/2024\"}"),
      Chars("{\"a\": {\"b\": 1}"),
      Chars("[\"'\"]"),
      Chars("[[]]"),
      Chars("[1, 2]"),
      Chars("\"text\""),
      Chars("null"),
      Chars("42") }

Completions == AllTexts(MaxLen) \cup UNION {Prefixes(d) : d \in Documents}

\* what _do_ocr returns: the recognised words (none for a picture without text)
RecTexts == {<<>>, <<Chars("Rock"), Chars("am"), Chars("1.5.")>>}

ExtractInit ==
    /\ ocr \in {[raises |-> TRUE, rec_texts |-> <<>>]}
               \cup {[raises |-> FALSE, rec_texts |-> w] : w \in RecTexts}
    /\ llm \in {[raises |-> TRUE, content |-> <<>>]}
               \cup {[raises |-> FALSE, content |-> c] : c \in Completions}
    /\ xpc = "call"
    /\ ai_result_json = NoParse
    /\ extracted = NoResult
    /\ added = <<>>
    /\ saved = <<>>

\* extractor.py line 145: _do_ocr raises (lines 186-194), outside the try
ExtractOcrRaises ==
    /\ xpc = "call"
    /\ ocr.raises
    /\ xpc' = "raised"
    /\ extracted' = [raised |-> "RuntimeError", events |-> <<>>]
    /\ UNCHANGED <<ocr, llm, ai_result_json, added, saved, trackerVars>>

\* line 147: ask_llm raises (lines 245-249), outside the try
ExtractLlmRaises ==
    /\ xpc = "call"
    /\ ~ocr.raises
    /\ llm.raises
    /\ xpc' = "raised"
    /\ extracted' = [raised |-> "Exception", events |-> <<>>]
    /\ UNCHANGED <<ocr, llm, ai_result_json, added, saved, trackerVars>>

\* lines 143-184 with both collaborators returning
Extract ==
    /\ xpc = "call"
    /\ ~ocr.raises
    /\ ~llm.raises
    /\ ai_result_json' = ParseAiResponse(llm.content)
    /\ \E lenient \in [1..2 -> BOOLEAN] :
          extracted' = ExtractResult(ocr.rec_texts, ai_result_json', lenient)
    /\ xpc' = IF extracted'.raised = "" THEN "returned" ELSE "raised"
    /\ UNCHANGED <<ocr, llm, added, saved, trackerVars>>

(***************************************************************************)
(* The new-photo handler of __main__.py and RemoteCal.addEvent.            *)
(***************************************************************************)
\* __main__.py line 147: if not event.date (a datetime is never falsy)
HasNoDate(event) == event.date = DateNone
HasDate(event) == ~HasNoDate(event)

\* remote_cal.py line 22: event.date < datetime.datetime.now() can be true.
\* The default date was taken from the clock before the call; a date of the
\* running year, or one of dateutil's, lies on either side of the clock
CanBePast(event) ==
    \/ event.date.kind \in {"now", "lenient"}
    \/ event.date.kind = "parsed" /\ event.date.y <= Num4(YearText, 1)

\* remote_cal.py line 22: the comparison can be false
CanBeFuture(event) ==
    \/ event.date.kind = "lenient"
    \/ event.date.kind = "parsed" /\ event.date.y >= Num4(YearText, 1)

\* __main__.py lines 140-144: the list the loop of line 146 walks
EventsToHandle ==
    IF xpc = "raised" THEN <<>> ELSE extracted.events

\* remote_cal.py lines 22-32 over the Events passed: those not in the past
Kept(events, past) ==
    LET n == Cardinality({k \in 1..Len(events) : ~past[k]})
        Pos(j) == CHOOSE k \in 1..Len(events) :
                     ~past[k] /\ Cardinality({i \in 1..k : ~past[i]}) = j
    IN  [j \in 1..n |-> events[Pos(j)]]

\* __main__.py lines 139-151 after the extract call; calendar_ok: whether
\* save_event (a request to the CalDAV server) succeeds.  When it raises,
\* the exception leaves on_new_photo at the first Event to be saved
OnNewPhoto(calendar_ok) ==
    /\ xpc \in {"returned", "raised"}
    /\ \E past \in [1..Len(SelectSeq(EventsToHandle, HasDate)) -> BOOLEAN] :
          /\ \A k \in DOMAIN past :
                IF past[k] THEN CanBePast(SelectSeq(EventsToHandle, HasDate)[k])
                           ELSE CanBeFuture(SelectSeq(EventsToHandle, HasDate)[k])
          /\ IF calendar_ok \/ \A k \in DOMAIN past : past[k]
               THEN /\ added' = SelectSeq(EventsToHandle, HasDate)
                    /\ saved' = Kept(added', past)
                    /\ xpc' = "handled"
               ELSE /\ added' = SubSeq(SelectSeq(EventsToHandle, HasDate), 1,
                                       CHOOSE k \in DOMAIN past :
                                          ~past[k] /\ \A i \in 1..(k - 1) : past[i])
                    /\ saved' = <<>>
                    /\ xpc' = "handler raised"
    /\ UNCHANGED <<ocr, llm, ai_result_json, extracted, trackerVars>>

ExtractNext ==
    \/ ExtractOcrRaises
    \/ ExtractLlmRaises
    \/ Extract
    \/ \E calendar_ok \in BOOLEAN : OnNewPhoto(calendar_ok)

vars == <<trackerVars, extractVars>>

\* the tracker
Init == TrackerInit /\ ExtractIdle
Next == TrackerNext
Spec == Init /\ [][Next]_vars

\* the steps of update_posts(), on whichever thread runs it
UpdateStep ==
    \/ UpdateTestNew
    \/ UpdateReadNew
    \/ UpdateTestProcessed
    \/ UpdateReadProcessed
    \/ \E ok \in BOOLEAN : UpdateFetch(ok)
    \/ UpdateWalk

\* the steps of the update thread outside update_posts()
WorkerStep == WorkerLoop \/ WorkerSleep \/ WorkerWake \/ WorkerRaise

\* The handler without its callback registry.  add_on_new_photo_callback and
\* the wrappers it registers touch neither the stop flag nor the update
\* thread, and what a wrapper does to the two directories is what
\* mark_photo_as_processed does or nothing, so every run of Next is, on the
\* variables the thread reads and writes, a run of NextNoRegistry.
NextNoRegistry ==
    \/ \E t \in MediaTypes : Publish(t)
    \/ InitMediaHandler
    \/ InitReturn
    \/ InitRaise
    \/ UpdateStep
    \/ WorkerStep
    \/ StopWorker
    \/ \E f \in new_photos_dir \cup processed_photos_dir : MarkPhotoAsProcessed(f)

\* The update thread is an operating system thread: it is scheduled again
\* and again, every call it makes returns or raises, and time.sleep returns
\* after the interval.  Nothing is assumed of the main thread.
SpecFair ==
    Init /\ [][NextNoRegistry]_vars /\ WF_vars(UpdateStep) /\ WF_vars(WorkerStep)

\* one extract call on a bounded completion
InitExtract == TrackerInit /\ ExtractInit
NextExtract == ExtractNext
SpecExtract == InitExtract /\ [][NextExtract]_vars

(***************************************************************************)
(* Properties of the photo tracker.                                        *)
(***************************************************************************)
IdsOf(dir) == {PhotoId(f) : f \in dir}

\* C1: no photo id is present in both the "new" and the "processed"
\* directory, in any reachable state of the store.
PhotoInAtMostOneDirectory ==
    IdsOf(new_photos_dir) \cap IdsOf(processed_photos_dir) = {}

\* C2: when a cycle has completed and no post was published since, the
\* update_posts run again has downloaded zero photos, whatever entry the
\* directory listing returned first.
RerunDownloadsNothing ==
    (cyc.pc = "done" /\ quiet) => cyc.counter = 0

\* C3: a cycle never downloads the post whose id equals the cursor it
\* computed at its start, nor any post listed after that post.
CursorBoundsDownloads ==
    \A j \in 1..Len(cyc.posts) :
        cyc.posts[j].pk = cyc.latest_id =>
            \A k \in j..Len(cyc.posts) : cyc.posts[k].pk \notin cyc.downloads

\* C3 witness: a completed cycle that downloaded a newer post and stopped at
\* the cursor, with an older post listed after it.
CursorBoundsDownloadsWitness ==
    /\ cyc.pc = "done"
    /\ cyc.downloads # {}
    /\ \E j \in 1..Len(cyc.posts) :
          /\ cyc.posts[j].pk = cyc.latest_id
          /\ j < Len(cyc.posts)
          /\ cyc.posts[j + 1].media_type = cyc.type

\* C4: a photo that mark_photo_as_processed has moved is absent from "new"
\* and present in "processed" in every later state.
MarkedStaysProcessed ==
    \A f \in marked : f \notin new_photos_dir /\ f \in processed_photos_dir

\* C5: once init_media_handler has succeeded, every further call raises
\* "Handler already initialized" and leaves the stored object unchanged, and
\* get_media_handler returns the first object.
SingletonKept ==
    first_instance # 0 =>
        /\ handler_instance = first_instance
        /\ (last_call.op = "init_media_handler" /\ last_call.was # 0) =>
               /\ last_call.result = "ValueError: Handler already initialized"
               /\ last_call.was = first_instance
        /\ GetMediaHandler = [raised |-> "", returned |-> first_instance]

\* C5 witness: init_media_handler was called again after it had succeeded.
SingletonKeptWitness ==
    /\ last_call.op = "init_media_handler"
    /\ last_call.was # 0
    /\ constructed < MaxConstructions

\* C6: every invocation of a wrapped handler on a photo leaves that photo
\* moved from "new" to "processed", whether the handler returned or raised.
WrapperAlwaysMarks ==
    [][(last_call'.op = "marked_wrapper" /\ last_call' # last_call) =>
          /\ last_call'.photo \notin new_photos_dir'
          /\ last_call'.photo \in processed_photos_dir']_vars
(***************************************************************************)
(* Properties of the extract call, under SpecExtract.                      *)
(***************************************************************************)
\* the call returned a list (OCR and the model call succeeded, nothing
\* escaped the try)
ExtractReturned == xpc = "returned"

\* the JSON object events[k] was built from
SourceObject(k) ==
    IF ai_result_json.val.t = "list" THEN ai_result_json.val.items[k]
    ELSE ai_result_json.val

\* the text is a calendar date written YYYY-MM-DD
IsIsoDate(s) ==
    /\ Len(s) = 10
    /\ \A k \in {1, 2, 3, 4, 6, 7, 9, 10} : s[k] \in Digits
    /\ s[5] = "-" /\ s[8] = "-"
    /\ Num4(s, 1) >= 1
    /\ Num2(s, 6) \in 1..12
    /\ Num2(s, 9) \in 1..DaysInMonth(Num4(s, 1), Num2(s, 6))

ExtractNeverRaises ==
    (xpc \in {"returned", "raised"} /\ ~ocr.raises /\ ~llm.raises) =>
        /\ xpc = "returned"
        /\ extracted.raised = ""
        /\ (ai_result_json.exc # "" => Len(extracted.events) = 1)

\* extract has returned for a completion that is a JSON list whose first
\* element is no object
ExtractNeverRaisesWitness ==
    /\ ExtractReturned
    /\ ai_result_json.exc = ""
    /\ ai_result_json.val.t = "list"
    /\ Len(ai_result_json.val.items) > 0
    /\ ai_result_json.val.items[1].t # "obj"
    /\ Len(extracted.events) = 1

\* the text is a JSON object cut off before its closing brace
IsTruncatedObject(text) ==
    /\ Len(text) > 0
    /\ text[1] = "{"
    /\ ~JsonLoads(text).ok
    /\ JsonLoads(Append(text, "}")).ok

\* C9: for a completion that is a valid JSON object without its closing
\* brace, _parse_ai_response returns the object that parsing the completion
\* with the brace appended gives, and signals no parse failure.
TruncatedObjectRecovered ==
    (xpc \in {"returned", "raised"} /\ ai_result_json # NoParse
        /\ IsTruncatedObject(llm.content)) =>
        ai_result_json = Returned(JsonLoads(Append(llm.content, "}")).val)

\* the text is a valid JSON object or list with nothing around it
IsCompactJson(text) ==
    /\ Len(text) > 0
    /\ text[1] \in {"{", "["}
    /\ text[Len(text)] \in {"}", "]"}
    /\ "\n" \notin {text[k] : k \in 1..Len(text)}
    /\ JsonLoads(text).ok

\* C10: for a completion that is a valid compact JSON object or list,
\* _parse_ai_response returns exactly the value a plain JSON parse of the
\* completion gives.
CompactJsonRoundTrips ==
    (xpc \in {"returned", "raised"} /\ ai_result_json # NoParse
        /\ IsCompactJson(llm.content)) =>
        ai_result_json = Returned(JsonLoads(llm.content).val)

\* the text holds no JSON object and no list: neither bracket occurs in it
IsPlainProse(text) == \A k \in 1..Len(text) : text[k] \notin {"{", "["}

\* C11: for a completion that holds no JSON object or list at all, extract
\* returns exactly one Event, whose title, time and location are None and
\* whose original_text is the joined OCR text.
PlainProseOneEvent ==
    (ExtractReturned /\ IsPlainProse(llm.content)) =>
        /\ Len(extracted.events) = 1
        /\ extracted.events[1].title = JNull
        /\ extracted.events[1].time = JNull
        /\ extracted.events[1].location = JNull
        /\ extracted.events[1].original_text = Join(ocr.rec_texts)

\* extract has returned for a sentence of prose, on a picture with text
PlainProseOneEventWitness ==
    /\ ExtractReturned
    /\ llm.content = Chars("Keine Veranstaltung gefunden.")
    /\ ocr.rec_texts # <<>>
    /\ Len(extracted.events) = 1

\* on_new_photo has run to its end or to an exception of the calendar
Handled == xpc \in {"handled", "handler raised"}

\* extract returned the fallback Event: the completion gave no Event at all
IsFallback ==
    ai_result_json.exc # "" \/ ai_result_json.val.t \notin {"list", "obj"}

\* C12: an Event whose date is missing in the model output is never passed
\* to RemoteCal.addEvent: neither the fallback Event, created without a date,
\* nor an Event built from an object whose 'Datum' is null, absent or no
\* string.
DatelessNeverForwarded ==
    Handled =>
        /\ (xpc # "raised" /\ extracted.raised = "" /\ ai_result_json # NoParse
              /\ IsFallback) => added = <<>>
        /\ (ai_result_json # NoParse /\ ~IsFallback) =>
              \A k \in 1..Len(extracted.events) :
                 DictGet(SourceObject(k).items, Datum).t # "str" =>
                    \A j \in 1..Len(added) : added[j] # extracted.events[k]

(***************************************************************************)
(* Properties of the update thread, under Spec.                            *)
(***************************************************************************)
\* C13: an exception of one update_posts call inside the update thread does
\* not end the thread: the worker is never dead, it only leaves its loop
\* through the stop flag.
WorkerOutlivesFailedCycle == wpc # "dead"

\* the update thread is alive: started, neither returned nor ended by an
\* exception
WorkerRunning == wpc \in {"loop", "cycle", "sleep"}

\* C14: once the stop flag is set the update thread starts no further cycle;
\* a cycle in progress is not cut short (the step after any step of a
\* running cycle still belongs to that cycle or ends it at its own end);
\* the loop is left only at its test, line 161, with the flag set; and the
\* thread eventually ends.
WorkerStopsAtBoundary ==
    /\ [][ /\ (stop_event /\ cyc.owner # "worker") => cyc'.owner # "worker"
           /\ (cyc.owner = "worker" /\ cyc.pc \notin {"done", "raised"})
                  => /\ cyc'.owner = "worker"
                     /\ wpc' = "cycle"
           /\ (wpc # "exited" /\ wpc' = "exited") => (wpc = "loop" /\ stop_event)
         ]_vars
    /\ (stop_event ~> ~WorkerRunning)

\* the flag was set and the update thread has left its loop
WorkerStopsAtBoundaryWitness ==
    /\ wpc = "exited"
    /\ stop_event
\* C15: the constructor runs exactly one cycle on the calling thread: the
\* cycle is started in the step that enters the constructor's body, the
\* step that ends it ends the construction, and the object is stored only
\* when it has completed.  It runs after the two mkdir calls and while the
\* update thread is not started, so no cycle of the thread overlaps it.
\* The thread is started exactly when no_auto_update is false, and when it
\* is true no cycle of the thread ever runs.
ConstructionRunsOneCycleFirst ==
    /\ [](/\ (mpc = "constructing") <=> (cyc.owner = "init")
          /\ cyc.owner = "init" => (mkdir_done /\ wpc = "unstarted")
          /\ handler_instance # 0 => ((wpc # "unstarted") <=> ~no_auto_update)
          /\ (handler_instance # 0 /\ no_auto_update) => cyc.owner # "worker"
          /\ handler_instance = 0 => (wpc = "unstarted" /\ cyc.owner # "worker"))
    /\ [][ /\ (cyc.owner # "init" /\ cyc'.owner = "init")
                  => (mpc = "run" /\ handler_instance = 0)
           /\ (cyc.owner = "init" /\ cyc'.owner # "init")
                  => (cyc.pc \in {"done", "raised"} /\ mpc' = "run")
           /\ handler_instance' # handler_instance
                  => (cyc.owner = "init" /\ cyc.pc = "done")
         ]_vars

\* a handler constructed with no_auto_update false, whose thread runs a cycle
ConstructionRunsOneCycleFirstWitness ==
    /\ handler_instance # 0
    /\ ~no_auto_update
    /\ cyc.owner = "worker"
\* C16: whatever the main thread's mark_photo_as_processed calls do between
\* the steps of a cycle, the cursor computation of lines 115-119 ends
\* without an error, with the id of a photo that is in one of the two
\* directories, or with no cursor when both are empty.
CursorComputedUnderRace ==
    [][ (cyc.pc \in {"l117", "l118", "l119"} /\ cyc'.pc # cyc.pc)
           => /\ cyc'.pc # "raised"
              /\ cyc'.pc = "l121" =>
                    IF new_photos_dir \cup processed_photos_dir = {}
                      THEN cyc'.latest_id = 0
                      ELSE cyc'.latest_id \in IdsOf(new_photos_dir \cup processed_photos_dir)
      ]_vars
\* the place in the listing where the walk of a cycle ends: the first post
\* whose id equals the cursor, or the end of the listing
WalkEnd(c) ==
    IF \E j \in 1..Len(c.posts) : c.posts[j].pk = c.latest_id
      THEN CHOOSE j \in 1..Len(c.posts) :
               /\ c.posts[j].pk = c.latest_id
               /\ \A k \in 1..(j - 1) : c.posts[k].pk # c.latest_id
      ELSE Len(c.posts) + 1

\* the posts of the configured type among the first n of the listing
TypedBefore(c, n) ==
    {c.posts[k].pk : k \in {k \in 1..n : c.posts[k].media_type = c.type}}

\* C17: in a cycle with cap N at most N posts are requested and at most N
\* downloaded; the posts are visited in the listing's order, so that what
\* has been downloaded is always exactly the posts of the configured type
\* among those visited; the walk never passes the first post whose id is
\* the cursor and a completed cycle has ended there (or at the end of the
\* listing), having downloaded every post of the configured type listed
\* before; and each download puts the post's file into new_photos.
WalkDownloadsListedPrefix ==
    /\ [](cyc.pc \in {"l124", "done"} =>
            /\ Len(cyc.posts) <= cyc.max_downloads
            /\ cyc.counter <= cyc.max_downloads
            /\ Cardinality(cyc.downloads) = cyc.counter
            /\ cyc.i <= WalkEnd(cyc)
            /\ cyc.downloads = TypedBefore(cyc, cyc.i - 1)
            /\ cyc.pc = "done" => cyc.i = WalkEnd(cyc))
    /\ [][cyc'.downloads # cyc.downloads /\ cyc'.owner = cyc.owner =>
             /\ cyc'.downloads = cyc.downloads \cup {cyc.posts[cyc.i].pk}
             /\ DownloadName(cyc.posts[cyc.i].pk) \in new_photos_dir'
         ]_vars

\* a completed cycle that passed a post of another type, downloaded a post
\* and ended at the cursor
WalkDownloadsListedPrefixWitness ==
    /\ cyc.pc = "done"
    /\ cyc.i <= Len(cyc.posts)
    /\ cyc.posts[cyc.i].pk = cyc.latest_id
    /\ cyc.downloads # {}
    /\ \E k \in 1..(cyc.i - 1) : cyc.posts[k].media_type # cyc.type
(***************************************************************************)
(* Properties of Event's date, under SpecExtract.                          *)
(***************************************************************************)
\* every Event of the returned list was built at lines 154-173 from a JSON
\* object; otherwise the list is the fallback of line 184, built without a
\* date argument
AllFromObjects ==
    /\ ai_result_json.exc = ""
    /\ \/ ai_result_json.val.t = "obj"
       \/ /\ ai_result_json.val.t = "list"
          /\ \A k \in 1..Len(ai_result_json.val.items) :
                ai_result_json.val.items[k].t = "obj"

\* C18 as stated: an Event built with no date value, the argument omitted
\* or None from a null or missing 'Datum', has the current date and time as
\* its date.
AbsentDateIsNow ==
    ExtractReturned =>
        \A k \in 1..Len(extracted.events) :
            (AllFromObjects => DictGet(SourceObject(k).items, Datum) = JNull)
                => extracted.events[k].date = DateNow

\* C18, amended: an Event built without a date argument (the fallback) has
\* the current date and time as its date; an Event built with date=None, from
\* a null or missing 'Datum', keeps None.
OmittedDateIsNowNoneIsKept ==
    ExtractReturned =>
        /\ ~AllFromObjects =>
              /\ Len(extracted.events) = 1
              /\ extracted.events[1].date = DateNow
        /\ AllFromObjects =>
              \A k \in 1..Len(extracted.events) :
                  DictGet(SourceObject(k).items, Datum) = JNull
                      => extracted.events[k].date = DateNone

\* an Event built from an object that has no 'Datum' key
OmittedDateIsNowNoneIsKeptWitness ==
    /\ ExtractReturned
    /\ AllFromObjects
    /\ ai_result_json.val.t = "obj"
    /\ \A j \in 1..Len(ai_result_json.val.items) :
          ai_result_json.val.items[j][1] # Datum
    /\ Len(extracted.events) = 1
    /\ extracted.events[1].date = DateNone
====
